---- MODULE Spec2Model ----
(***************************************************************************)
(* Model of steam_to_discord.py: a single-threaded poller (main) that      *)
(* fetches one player's Steam status per tick, decides with should_notify  *)
(* whether the change is worth a Discord message, sends it through the     *)
(* webhook or the bot back-end, and remembers the last notified snapshot   *)
(* in memory (state) and in .status.json (statusFile).  A signal handler   *)
(* sets the shutdown flag at any moment.                                    *)
(*                                                                         *)
(* Strings stand for themselves; only emptiness of the credentials is      *)
(* read by the code, so each credential ranges over "" and one value.      *)
(* Snapshot fields that no decision reads (name, avatar, profile_url,      *)
(* timestamp) are left out of the snapshot record.  The keep-alive HTTP     *)
(* server shares no state with main and is left out.                       *)
(***************************************************************************)
EXTENDS Integers, FiniteSets, Sequences, TLC

VARIABLES
    STEAM_API_KEY, STEAM_FRIEND_ID64, DISCORD_WEBHOOK_URL, BOT_MODE,
    DISCORD_BOT_TOKEN, DISCORD_CHANNEL_ID, ONLY_ONLINE, ONLY_GAMES,
    shutdown,       \* _shutdown
    pc,             \* where main is
    state,          \* main's local `state`: the remembered previous snapshot
    statusFile,     \* content of .status.json
    curr,           \* main's local `curr` of the running tick
    notify, reason, \* main's locals, the result of should_notify
    resp,           \* r.status_code of the tick's POST (0: no response)
    exc,            \* the exception the tick's try block raised ("none": none)
    startupPosts,   \* history: POSTs issued for the startup message
    posted,         \* history: reason POSTed in the running tick ("": none)
    lastPollState,  \* history: personastate fetched by the preceding tick (-1: none)
    suppressed,     \* history: a started-playing transition was dropped by ONLY_GAMES
    tickState,      \* history: `state` when the running tick began
    tickFile,       \* history: statusFile when the running tick began
    POLL_ENV,       \* the environment's POLL_SECONDS string (PyNone: unset)
    POLL_SECONDS,   \* the module global computed from it at import
    sleepFor,       \* argument of the last time.sleep that returned (0: none yet)
    sendCalls,      \* history: calls of the back-end made by the running tick
    run             \* history of a followed installation (Off: not followed)

config == <<STEAM_API_KEY, STEAM_FRIEND_ID64, DISCORD_WEBHOOK_URL, BOT_MODE,
            DISCORD_BOT_TOKEN, DISCORD_CHANNEL_ID, ONLY_ONLINE, ONLY_GAMES,
            POLL_ENV, POLL_SECONDS>>

vars == <<STEAM_API_KEY, STEAM_FRIEND_ID64, DISCORD_WEBHOOK_URL, BOT_MODE,
          DISCORD_BOT_TOKEN, DISCORD_CHANNEL_ID, ONLY_ONLINE, ONLY_GAMES,
          shutdown, pc, state, statusFile, curr, notify, reason, resp, exc,
          startupPosts, posted, lastPollState, suppressed, tickState, tickFile,
          POLL_ENV, POLL_SECONDS, sleepFor, sendCalls, run>>

---------------------------------------------------------------------------
(* Bounds and value sets *)

\* personastate values the summaries endpoint is taken to return: 0..MaxPersona
MaxPersona == 1

PersonaStates == 0 .. MaxPersona

\* Python's None
PyNone == "<None>"

\* a dict key that is not there
KeyAbsent == "<absent>"

\* game titles as Steam reports them
Titles == {"Dota 2", "csgo"}

\* str.lower on the strings of the model
Lower(s) ==
    CASE s = "Dota 2" -> "dota 2"
      [] s = "dota 2" -> "dota 2"
      [] s = "csgo"   -> "csgo"
      [] s = ""       -> ""
      [] OTHER        -> s

\* values of the ONLY_GAMES list (read through membership only)
OnlyGamesChoices == SUBSET {"dota 2"}

\* "" or a value, for each credential string
Cred == {"", "set"}

\* the {} that load_last_status returns and `if prev` rejects
EmptyDict == [empty |-> TRUE]

\* the history `run` of a specification that follows no installation
Off == [off |-> TRUE]

\* `curr` before the tick's fetch has assigned it
NoCurr == [unset |-> TRUE]

\* one decimal digit as text
Digit(d) ==
    CASE d = 0 -> "0"
      [] d = 1 -> "1"
      [] d = 2 -> "2"
      [] d = 3 -> "3"
      [] d = 4 -> "4"
      [] d = 5 -> "5"
      [] d = 6 -> "6"
      [] d = 7 -> "7"
      [] d = 8 -> "8"
      [] d = 9 -> "9"

RECURSIVE NatStr(_)
NatStr(n) == IF n < 10 THEN Digit(n) ELSE NatStr(n \div 10) \o Digit(n % 10)

\* str(n) of an int, as the f-string at line 116 formats it
PyStr(n) == IF n < 0 THEN "-" \o NatStr(-n) ELSE NatStr(n)

\* PERSONA_MAP.get(personastate, f"unknown({personastate})")
PERSONA_MAP(n) ==
    CASE n = 0 -> "offline"
      [] n = 1 -> "online"
      [] n = 2 -> "busy"
      [] n = 3 -> "away"
      [] n = 4 -> "snooze"
      [] n = 5 -> "looking to trade"
      [] n = 6 -> "looking to play"
      [] OTHER -> "unknown(" \o PyStr(n) \o ")"

\* the player records players[0] ranges over
Players ==
    [personastate : PersonaStates,
     gameextrainfo : {KeyAbsent, PyNone, ""} \cup Titles]

\* the dict fetch_steam_status builds from players[0]
Snapshot(p) ==
    [personastate |-> p.personastate,
     state        |-> PERSONA_MAP(p.personastate),
     in_game      |-> (p.gameextrainfo # KeyAbsent),
     game         |-> IF p.gameextrainfo = KeyAbsent THEN PyNone ELSE p.gameextrainfo]

Snapshots == {Snapshot(p) : p \in Players}

\* what requests.get / raise_for_status / r.json() / the players check / int() raise
FetchErrors == {"ConnectionError", "HTTPError", "RuntimeError", "ValueError"}

\* status codes of a POST's response
Statuses == {200, 500}

---------------------------------------------------------------------------
(* Configuration read at import *)

\* values of the POLL_SECONDS environment variable: unset, or an integer's text
PollEnvChoices == {PyNone, "-3", "5", "14", "15", "16", "100"}

\* os.getenv("POLL_SECONDS", "60")
GetenvPoll(env) == IF env = PyNone THEN "60" ELSE env

\* int() on the strings of the model
PyInt(s) ==
    CASE s = "-3"  -> -3
      [] s = "5"   -> 5
      [] s = "14"  -> 14
      [] s = "15"  -> 15
      [] s = "16"  -> 16
      [] s = "60"  -> 60
      [] s = "100" -> 100

PyMax(a, b) == IF a >= b THEN a ELSE b

\* the interval without the floor: int(os.getenv("POLL_SECONDS", "60"))
PollSeconds_no_floor(env) == PyInt(GetenvPoll(env))

\* POLL_SECONDS = max(15, int(os.getenv("POLL_SECONDS", "60")))
PollSeconds(env) == PyMax(15, PyInt(GetenvPoll(env)))

---------------------------------------------------------------------------
(* Persistence *)

\* the text json.dump writes for a value, and json.load's reading of it
\* json.dump writes an int in decimal
JsonInt(n) == PyStr(n)

JsonBool(b) == IF b THEN "true" ELSE "false"

JsonStr(str) == "\"" \o str \o "\""

\* a str or None
JsonOptStr(v) == IF v = PyNone THEN "null" ELSE JsonStr(v)

IntTexts == {JsonInt(n) : n \in PersonaStates \cup 0 .. 6}

\* the strings the model's dicts hold
KnownStrings == {PERSONA_MAP(n) : n \in PersonaStates \cup 0 .. 6} \cup Titles \cup {"", "abc"}

ParseInt(t) == CHOOSE n \in PersonaStates \cup 0 .. 6 : JsonInt(n) = t

ParseBool(t) == (t = "true")

ParseStr(t) == CHOOSE str \in KnownStrings : JsonStr(str) = t

ParseOptStr(t) == IF t = "null" THEN PyNone ELSE ParseStr(t)

\* json.dump(data, f): the object's text, member by member
json_dump(d) ==
    [personastate |-> JsonInt(d.personastate),
     state        |-> JsonStr(d.state),
     in_game      |-> JsonBool(d.in_game),
     game         |-> JsonOptStr(d.game)]

\* the text of a JSON document that is no object: [1]
ListText == [text |-> "[1]"]

\* the non-empty list json.load returns for it
PyList == [list |-> TRUE]

\* json.load reading a null game as ""
json_load_null_as_empty(t) ==
    IF t = ListText THEN PyList
    ELSE IF t.personastate \notin IntTexts
    THEN [personastate_str |-> ParseStr(t.personastate),
          state            |-> ParseStr(t.state),
          in_game          |-> ParseBool(t.in_game),
          game             |-> IF t.game = "null" THEN "" ELSE ParseStr(t.game)]
    ELSE [personastate |-> ParseInt(t.personastate),
          state        |-> ParseStr(t.state),
          in_game      |-> ParseBool(t.in_game),
          game         |-> IF t.game = "null" THEN "" ELSE ParseStr(t.game)]

\* json.load(f): a list for a list's text; for an object's text the dict, whose
\* "personastate" is a str (field personastate_str) when the text holds a string
json_load(t) ==
    IF t = ListText THEN PyList
    ELSE IF t.personastate \notin IntTexts
    THEN [personastate_str |-> ParseStr(t.personastate),
          state            |-> ParseStr(t.state),
          in_game          |-> ParseBool(t.in_game),
          game             |-> ParseOptStr(t.game)]
    ELSE [personastate |-> ParseInt(t.personastate),
          state        |-> ParseStr(t.state),
          in_game      |-> ParseBool(t.in_game),
          game         |-> ParseOptStr(t.game)]

FileMissing == [kind |-> "missing"]
FileCorrupt == [kind |-> "corrupt"]
FileJson(d) == [kind |-> "json", data |-> json_dump(d)]

\* a status file holding [1]
FileList == [kind |-> "json", data |-> ListText]

\* a status file holding an object whose personastate is the string "abc"
FileBadPersona ==
    [kind |-> "json",
     data |-> [personastate |-> JsonStr("abc"), state |-> JsonStr("online"),
               in_game |-> "false", game |-> "null"]]

load_last_status(f) ==
    IF f.kind = "missing" THEN EmptyDict
    ELSE IF f.kind = "json" THEN json_load(f.data)
    ELSE EmptyDict

\* the file after save_last_status(data): written, left alone when open fails,
\* truncated when the write fails after open(..., "w")
save_last_status(f, data) == {FileJson(data), f, FileCorrupt}

---------------------------------------------------------------------------
(* Notify logic *)

Truthy(d) == d # EmptyDict

\* the exception should_notify raises on prev ("none": it returns): a list has
\* no .get, and int() rejects a str that is no number
should_notify_raises(prev) ==
    IF prev = PyList THEN "AttributeError"
    ELSE IF Truthy(prev) /\ "personastate_str" \in DOMAIN prev THEN "ValueError"
    ELSE "none"

\* (curr.get("game") or "").lower()
GameName(c) == IF c.game = PyNone \/ c.game = "" THEN "" ELSE Lower(c.game)

\* should_notify with the two rules tested in the other order
should_notify_rules_swapped(prev, c) ==
    LET prev_state   == IF Truthy(prev) THEN prev.personastate ELSE 0
        curr_state   == c.personastate
        prev_in_game == IF Truthy(prev) THEN prev.in_game ELSE FALSE
        curr_in_game == c.in_game
        game_name    == GameName(c)
    IN  IF ~prev_in_game /\ curr_in_game
        THEN IF ONLY_GAMES # {} /\ game_name # "" /\ game_name \notin ONLY_GAMES
             THEN <<FALSE, "">>
             ELSE IF ONLY_ONLINE
             THEN <<FALSE, "">>
             ELSE <<TRUE, "started playing">>
        ELSE IF prev_state = 0 /\ curr_state > 0
        THEN IF ONLY_GAMES # {} /\ ONLY_ONLINE
             THEN <<FALSE, "">>
             ELSE <<TRUE, "came online">>
        ELSE <<FALSE, "">>

\* should_notify with rule 2 reading curr alone (no `not prev_in_game`)
should_notify_no_prev_game_guard(prev, c) ==
    LET prev_state   == IF Truthy(prev) THEN prev.personastate ELSE 0
        curr_state   == c.personastate
        curr_in_game == c.in_game
        game_name    == GameName(c)
    IN  IF prev_state = 0 /\ curr_state > 0
        THEN IF ONLY_GAMES # {} /\ ONLY_ONLINE
             THEN <<FALSE, "">>
             ELSE <<TRUE, "came online">>
        ELSE IF curr_in_game
        THEN IF ONLY_GAMES # {} /\ game_name # "" /\ game_name \notin ONLY_GAMES
             THEN <<FALSE, "">>
             ELSE IF ONLY_ONLINE
             THEN <<FALSE, "">>
             ELSE <<TRUE, "started playing">>
        ELSE <<FALSE, "">>

\* should_notify with an absent prev read as an online user (personastate 1)
should_notify_prev_default_online(prev, c) ==
    LET prev_state   == IF Truthy(prev) THEN prev.personastate ELSE 1
        curr_state   == c.personastate
        prev_in_game == IF Truthy(prev) THEN prev.in_game ELSE FALSE
        curr_in_game == c.in_game
        game_name    == GameName(c)
    IN  IF prev_state = 0 /\ curr_state > 0
        THEN IF ONLY_GAMES # {} /\ ONLY_ONLINE
             THEN <<FALSE, "">>
             ELSE <<TRUE, "came online">>
        ELSE IF ~prev_in_game /\ curr_in_game
        THEN IF ONLY_GAMES # {} /\ game_name # "" /\ game_name \notin ONLY_GAMES
             THEN <<FALSE, "">>
             ELSE IF ONLY_ONLINE
             THEN <<FALSE, "">>
             ELSE <<TRUE, "started playing">>
        ELSE <<FALSE, "">>

should_notify(prev, c) ==
    LET prev_state   == IF Truthy(prev) THEN prev.personastate ELSE 0
        curr_state   == c.personastate
        prev_in_game == IF Truthy(prev) THEN prev.in_game ELSE FALSE
        curr_in_game == c.in_game
        game_name    == GameName(c)
    IN  IF prev_state = 0 /\ curr_state > 0
        THEN IF ONLY_GAMES # {} /\ ONLY_ONLINE
             THEN <<FALSE, "">>
             ELSE <<TRUE, "came online">>
        ELSE IF ~prev_in_game /\ curr_in_game
        THEN IF ONLY_GAMES # {} /\ game_name # "" /\ game_name \notin ONLY_GAMES
             THEN <<FALSE, "">>
             ELSE IF ONLY_ONLINE
             THEN <<FALSE, "">>
             ELSE <<TRUE, "started playing">>
        ELSE <<FALSE, "">>

---------------------------------------------------------------------------
(* Notifier back-ends: the outcomes of one call *)

\* print(...): the line is written, or the write raises (stdout's reader is
\* gone: BrokenPipeError; stdout cannot encode the text: UnicodeEncodeError)
StdoutWrite == {"written", "raised"}

\* the warning was printed and the sender returned without a POST
Skipped == [post |-> FALSE, status |-> 0, raised |-> FALSE]

\* the credentials are missing: no POST; the sender returns after its warning,
\* or the print of the warning raises
SkipOutcomes ==
    {[post |-> FALSE, status |-> 0, raised |-> (w = "raised")] : w \in StdoutWrite}

\* requests.post: an exception (status 0), or a response with a status code;
\* on a status >= 300 the sender prints an error line, and that print may raise
PostOutcomes ==
    {[post |-> TRUE, status |-> s, raised |-> FALSE] : s \in Statuses}
    \cup {[post |-> TRUE, status |-> 0, raised |-> TRUE]}
    \cup {[post |-> TRUE, status |-> s, raised |-> TRUE] : s \in {t \in Statuses : t >= 300}}

\* the exception a raising sender leaves with: requests.post's, or the print's
SendError(o) == IF o.post /\ o.status = 0 THEN "ConnectionError" ELSE "BrokenPipeError"

send_discord_webhook == IF DISCORD_WEBHOOK_URL = "" THEN SkipOutcomes ELSE PostOutcomes

send_discord_bot ==
    IF ~(DISCORD_BOT_TOKEN # "" /\ DISCORD_CHANNEL_ID # "") THEN SkipOutcomes ELSE PostOutcomes

\* `if BOT_MODE: send_discord_bot(...) else: send_discord_webhook(...)`
Dispatch == IF BOT_MODE THEN send_discord_bot ELSE send_discord_webhook

---------------------------------------------------------------------------
(* The history of a followed installation *)

\* firstSeen once a different snapshot was fetched or the process was restarted
Changed == [changed |-> TRUE]

\* the history when the installation is new
RunStart ==
    [firstSeen      |-> NoCurr,  \* first fetched snapshot that is online or in a game
     delivered      |-> FALSE,   \* a send for firstSeen has returned
     advances       |-> 0,       \* times prev was advanced by a notification (3: more than 2)
     obsOk          |-> TRUE,    \* every fetched snapshot had in_game => personastate > 0
     stale          |-> FALSE,   \* the save of the last advance did not write the file
     inGameNotified |-> FALSE,   \* prev was advanced to an in-game snapshot
     sinceLoss      |-> 0,       \* advances since the start or the last restart that
                                 \* found a stale file (3: more than 2)
     inGameSinceLoss |-> FALSE,  \* an advance counted in sinceLoss was to an in-game snapshot
     lost           |-> FALSE,   \* a restart found a stale file
     written        |-> NoCurr,  \* the snapshot the status file was last written from
     restarted      |-> FALSE]   \* the process was started again

OnlineOrPlaying(c) == c.personastate > 0 \/ c.in_game

RunAfterFetch(r, c) ==
    [r EXCEPT !.obsOk = r.obsOk /\ (c.in_game => c.personastate > 0)]

RunAfterDecide(r, c) ==
    [r EXCEPT !.firstSeen =
        IF r.firstSeen = NoCurr THEN (IF OnlineOrPlaying(c) THEN c ELSE NoCurr)
        ELSE IF r.firstSeen = c THEN c
        ELSE Changed]

RunAfterSend(r, c, returned) ==
    [r EXCEPT !.delivered = r.delivered \/ (returned /\ r.firstSeen = c)]

RunAfterPersist(r, c, f) ==
    [r EXCEPT !.advances = IF r.advances < 3 THEN r.advances + 1 ELSE 3,
              !.inGameNotified = r.inGameNotified \/ c.in_game,
              !.sinceLoss = IF r.sinceLoss < 3 THEN r.sinceLoss + 1 ELSE 3,
              !.inGameSinceLoss = r.inGameSinceLoss \/ c.in_game,
              !.stale = (f # FileJson(c)),
              !.written = IF f = FileJson(c) THEN c
                          ELSE IF f = FileCorrupt THEN NoCurr
                          ELSE r.written]

\* the process is started again; when the file is stale the new process loads
\* an older prev (or none) and the advances are counted anew
RunAfterRestart(r) ==
    [r EXCEPT !.restarted = TRUE,
              !.firstSeen = IF r.firstSeen = NoCurr THEN NoCurr ELSE Changed,
              !.stale = FALSE,
              !.lost = r.lost \/ r.stale,
              !.sinceLoss = IF r.stale THEN 0 ELSE r.sinceLoss,
              !.inGameSinceLoss = IF r.stale THEN FALSE ELSE r.inGameSinceLoss]

---------------------------------------------------------------------------
(* main *)

\* the two `raise SystemExit` guards at the top of main
ConfigRejected ==
    \/ ~(STEAM_API_KEY # "" /\ STEAM_FRIEND_ID64 # "")
    \/ (~BOT_MODE /\ DISCORD_WEBHOOK_URL = "")

\* where control goes when the try block raises e: the clause that catches e
\* (line 261 for HTTPError, line 263 for the rest) prints it and main goes on
\* to the sleep, or the print raises, which leaves the loop and main
ExceptHandler(e) ==
    CASE e = "HTTPError" -> {IF w = "written" THEN "sleep" ELSE "crashed" : w \in StdoutWrite}
      [] OTHER           -> {IF w = "written" THEN "sleep" ELSE "crashed" : w \in StdoutWrite}

\* the send and the update taken out of the `if notify:` block
AfterDecide_always_update(n) == "send"

\* the update without the send: `if notify: state = curr; save_last_status(state)`
AfterDecide_skip_send(n) == IF n THEN "persist" ELSE "sleep"

\* `if notify:` after should_notify
AfterDecide(n) == IF n THEN "send" ELSE "sleep"

\* `while not _shutdown:`
WhileTest(flag) == IF flag THEN "done" ELSE "fetch"

Init ==
    /\ STEAM_API_KEY \in Cred
    /\ STEAM_FRIEND_ID64 \in Cred
    /\ DISCORD_WEBHOOK_URL \in Cred
    /\ BOT_MODE \in BOOLEAN
    /\ DISCORD_BOT_TOKEN \in Cred
    /\ DISCORD_CHANNEL_ID \in Cred
    /\ ONLY_ONLINE \in BOOLEAN
    /\ ONLY_GAMES \in OnlyGamesChoices
    /\ shutdown = FALSE
    /\ pc = "validate"
    /\ state = EmptyDict
    /\ statusFile \in {FileMissing, FileCorrupt, FileList, FileBadPersona}
                     \cup {FileJson(s) : s \in Snapshots}
    /\ curr = NoCurr
    /\ notify = FALSE
    /\ reason = ""
    /\ resp = 0
    /\ exc = "none"
    /\ startupPosts = 0
    /\ posted = ""
    /\ lastPollState = -1
    /\ suppressed = FALSE
    /\ tickState = EmptyDict
    /\ tickFile = statusFile
    /\ POLL_ENV = PyNone
    /\ POLL_SECONDS = PollSeconds(POLL_ENV)
    /\ sleepFor = 0
    /\ sendCalls = 0
    /\ run = Off

\* main, lines 222-225
Validate ==
    /\ pc = "validate"
    /\ pc' = IF ConfigRejected THEN "failed" ELSE "startup"
    /\ UNCHANGED <<config, shutdown, state, statusFile, curr, notify, reason, resp,
                   exc, startupPosts, posted, lastPollState, suppressed, tickState, tickFile,
                   sleepFor, sendCalls, run>>

\* main, lines 227-245: with KEEPALIVE set (the default) the keep-alive line
\* is printed, then the startup notification is sent; nothing here is in a
\* try block, so a print or a sender that raises ends the process
StartupSend ==
    /\ pc = "startup"
    /\ \E KEEPALIVE \in BOOLEAN, w \in StdoutWrite :
          IF KEEPALIVE /\ w = "raised"
          THEN /\ startupPosts' = startupPosts
               /\ pc' = "crashed"
          ELSE \E o \in Dispatch :
                  /\ startupPosts' = startupPosts + (IF o.post THEN 1 ELSE 0)
                  /\ pc' = IF o.raised THEN "crashed" ELSE "load"
    /\ UNCHANGED <<config, shutdown, state, statusFile, curr, notify, reason, resp,
                   exc, posted, lastPollState, suppressed, tickState, tickFile,
                   sleepFor, sendCalls, run>>

\* main, lines 247-248: the status is loaded and the "running" line is
\* printed, outside any try block
Load ==
    /\ pc = "load"
    /\ state' = load_last_status(statusFile)
    /\ \E w \in StdoutWrite : pc' = IF w = "written" THEN "loop" ELSE "crashed"
    /\ UNCHANGED <<config, shutdown, statusFile, curr, notify, reason, resp,
                   exc, startupPosts, posted, lastPollState, suppressed, tickState, tickFile,
                   sleepFor, sendCalls, run>>

\* main, line 250: the loop test; a new tick starts with its locals unset
LoopTest ==
    /\ pc = "loop"
    /\ pc' = WhileTest(shutdown)
    /\ lastPollState' = IF curr # NoCurr THEN curr.personastate ELSE -1
    /\ curr' = NoCurr
    /\ notify' = FALSE
    /\ reason' = ""
    /\ resp' = 0
    /\ exc' = "none"
    /\ posted' = ""
    /\ tickState' = state
    /\ tickFile' = statusFile
    /\ sendCalls' = 0
    /\ UNCHANGED <<config, shutdown, state, statusFile, startupPosts, suppressed,
                   sleepFor, run>>

\* main, line 252, fetch_steam_status raising
FetchFail ==
    /\ pc = "fetch"
    /\ \E e \in FetchErrors :
          /\ exc' = e
          /\ pc' \in ExceptHandler(e)
    /\ UNCHANGED <<config, shutdown, state, statusFile, curr, notify, reason, resp,
                   startupPosts, posted, lastPollState, suppressed, tickState, tickFile,
                   sleepFor, sendCalls, run>>

\* main, line 252, fetch_steam_status returning
Fetch ==
    /\ pc = "fetch"
    /\ \E p \in Players : curr' = Snapshot(p)
    /\ run' = IF run = Off THEN Off ELSE RunAfterFetch(run, curr')
    /\ pc' = "decide"
    /\ UNCHANGED <<config, shutdown, state, statusFile, notify, reason, resp, exc,
                   startupPosts, posted, lastPollState, suppressed, tickState, tickFile,
                   sleepFor, sendCalls>>

\* curr is a game the ONLY_GAMES filter drops
Dropped(c) == c.in_game /\ ONLY_GAMES # {} /\ GameName(c) # "" /\ GameName(c) \notin ONLY_GAMES

\* curr is a game the ONLY_GAMES filter names
Admitted(c) == c.in_game /\ ONLY_GAMES # {} /\ GameName(c) \in ONLY_GAMES

\* main, lines 253-254: should_notify returns, or raises into the except clauses
Decide ==
    /\ pc = "decide"
    /\ IF should_notify_raises(state) # "none"
       THEN /\ exc' = should_notify_raises(state)
            /\ pc' \in ExceptHandler(exc')
            /\ UNCHANGED <<notify, reason, suppressed, run>>
       ELSE /\ notify' = should_notify(state, curr)[1]
            /\ reason' = should_notify(state, curr)[2]
            /\ pc' = AfterDecide(notify')
            /\ suppressed' =
                  IF Admitted(curr) THEN FALSE
                  ELSE IF /\ Truthy(state) /\ state.personastate > 0 /\ ~state.in_game
                          /\ ~ONLY_ONLINE /\ Dropped(curr)
                       THEN TRUE
                       ELSE suppressed
            /\ run' = IF run = Off THEN Off ELSE RunAfterDecide(run, curr)
            /\ UNCHANGED exc
    /\ UNCHANGED <<config, shutdown, state, statusFile, curr, resp,
                   startupPosts, posted, lastPollState, tickState, tickFile,
                   sleepFor, sendCalls>>

\* main, lines 255-258
Send ==
    /\ pc = "send"
    /\ sendCalls' = sendCalls + 1
    /\ \E o \in Dispatch :
          /\ posted' = IF o.post THEN reason ELSE ""
          /\ resp' = o.status
          /\ exc' = IF o.raised THEN SendError(o) ELSE "none"
          /\ pc' \in IF o.raised THEN ExceptHandler(SendError(o)) ELSE {"persist"}
          /\ run' = IF run = Off THEN Off ELSE RunAfterSend(run, curr, ~o.raised)
    /\ UNCHANGED <<config, shutdown, state, statusFile, curr, notify, reason,
                   startupPosts, lastPollState, suppressed, tickState, tickFile,
                   sleepFor>>

\* main, lines 259-260
Persist ==
    /\ pc = "persist"
    /\ state' = curr
    /\ statusFile' \in save_last_status(statusFile, curr)
    /\ pc' = "sleep"
    /\ run' = IF run = Off THEN Off ELSE RunAfterPersist(run, curr, statusFile')
    /\ UNCHANGED <<config, shutdown, curr, notify, reason, resp, exc,
                   startupPosts, posted, lastPollState, suppressed, tickState, tickFile,
                   sleepFor, sendCalls>>

\* main, line 265: time.sleep returns
Sleep ==
    /\ pc = "sleep"
    /\ pc' = "loop"
    /\ sleepFor' = POLL_SECONDS
    /\ UNCHANGED <<config, shutdown, state, statusFile, curr, notify, reason, resp,
                   exc, startupPosts, posted, lastPollState, suppressed, tickState, tickFile,
                   sendCalls, run>>

Running == pc \notin {"failed", "crashed", "done"}

\* _handle_sigterm, on SIGTERM or SIGINT, while the process lives
Signal ==
    /\ Running
    /\ ~shutdown
    /\ shutdown' = TRUE
    /\ UNCHANGED <<config, pc, state, statusFile, curr, notify, reason, resp,
                   exc, startupPosts, posted, lastPollState, suppressed, tickState, tickFile,
                   sleepFor, sendCalls, run>>

Next ==
    \/ Validate
    \/ StartupSend
    \/ Load
    \/ LoopTest
    \/ FetchFail
    \/ Fetch
    \/ Decide
    \/ Send
    \/ Persist
    \/ Sleep
    \/ Signal

Spec == Init /\ [][Next]_vars

\* the steps of main: every HTTP call has a 20 s timeout and the sleep is
\* finite, so main, while it lives, always takes its next step
MainStep ==
    \/ Validate
    \/ StartupSend
    \/ Load
    \/ LoopTest
    \/ FetchFail
    \/ Fetch
    \/ Decide
    \/ Send
    \/ Persist
    \/ Sleep

\* the configurations that pass validation, one for each way the back-end
\* is set up: webhook; bot with token and channel; bot without them
PassingConfig ==
    /\ STEAM_API_KEY = "set"
    /\ STEAM_FRIEND_ID64 = "set"
    /\ \/ (~BOT_MODE /\ DISCORD_WEBHOOK_URL = "set"
            /\ DISCORD_BOT_TOKEN = "" /\ DISCORD_CHANNEL_ID = "")
       \/ (BOT_MODE /\ DISCORD_WEBHOOK_URL = ""
            /\ DISCORD_BOT_TOKEN = "set" /\ DISCORD_CHANNEL_ID = "set")
       \/ (BOT_MODE /\ DISCORD_WEBHOOK_URL = ""
            /\ DISCORD_BOT_TOKEN = "" /\ DISCORD_CHANNEL_ID = "")
    /\ ONLY_ONLINE \in BOOLEAN
    /\ ONLY_GAMES \in OnlyGamesChoices
    /\ POLL_ENV = PyNone
    /\ POLL_SECONDS = PollSeconds(POLL_ENV)

\* the locals and the histories of a process that has just been started
ProcessStart ==
    /\ shutdown = FALSE
    /\ pc = "validate"
    /\ state = EmptyDict
    /\ curr = NoCurr
    /\ notify = FALSE
    /\ reason = ""
    /\ resp = 0
    /\ exc = "none"
    /\ startupPosts = 0
    /\ posted = ""
    /\ lastPollState = -1
    /\ suppressed = FALSE
    /\ tickState = EmptyDict
    /\ tickFile = statusFile
    /\ sleepFor = 0
    /\ sendCalls = 0

---------------------------------------------------------------------------
(* main with its steps taken fairly, from every status file *)

InitLive ==
    /\ BOT_MODE \in BOOLEAN
    /\ PassingConfig
    /\ statusFile \in {FileMissing, FileCorrupt, FileList, FileBadPersona}
                     \cup {FileJson(s) : s \in Snapshots}
    /\ run = Off
    /\ ProcessStart

FairSpec == InitLive /\ [][Next]_vars /\ WF_vars(MainStep)

---------------------------------------------------------------------------
(* A new installation (no status file, the webhook back-end; the bot back-end
   with its token and channel has the same outcomes) followed across restarts
   of the process; the status file and the environment outlive the process *)

InitFresh ==
    /\ BOT_MODE = FALSE
    /\ PassingConfig
    /\ statusFile = FileMissing
    /\ run = RunStart
    /\ ProcessStart

\* the process ends (clean exit, uncaught exception, kill) and is started again
Restart ==
    /\ shutdown' = FALSE
    /\ pc' = "validate"
    /\ state' = EmptyDict
    /\ curr' = NoCurr
    /\ notify' = FALSE
    /\ reason' = ""
    /\ resp' = 0
    /\ exc' = "none"
    /\ startupPosts' = 0
    /\ posted' = ""
    /\ lastPollState' = -1
    /\ suppressed' = FALSE
    /\ tickState' = EmptyDict
    /\ tickFile' = statusFile
    /\ sleepFor' = 0
    /\ sendCalls' = 0
    /\ run' = IF run = Off THEN Off ELSE RunAfterRestart(run)
    /\ UNCHANGED <<config, statusFile>>

NextFresh == Next \/ Restart

SpecFresh == InitFresh /\ [][NextFresh]_vars

---------------------------------------------------------------------------
(* The poll interval: main under every POLL_SECONDS value, webhook mode, no
   filters, no status file *)

InitPoll ==
    /\ STEAM_API_KEY = "set"
    /\ STEAM_FRIEND_ID64 = "set"
    /\ DISCORD_WEBHOOK_URL = "set"
    /\ BOT_MODE = FALSE
    /\ DISCORD_BOT_TOKEN = ""
    /\ DISCORD_CHANNEL_ID = ""
    /\ ONLY_ONLINE = FALSE
    /\ ONLY_GAMES = {}
    /\ POLL_ENV \in PollEnvChoices
    /\ POLL_SECONDS = PollSeconds(POLL_ENV)
    /\ statusFile = FileMissing
    /\ run = Off
    /\ ProcessStart

SpecPoll == InitPoll /\ [][Next]_vars

---------------------------------------------------------------------------
(* should_notify on every pair of inputs: one call of the decision, from
   every prev (absent or a snapshot), every curr and every filter setting *)

InitDecide ==
    /\ STEAM_API_KEY = "set"
    /\ STEAM_FRIEND_ID64 = "set"
    /\ DISCORD_WEBHOOK_URL = "set"
    /\ BOT_MODE = FALSE
    /\ DISCORD_BOT_TOKEN = ""
    /\ DISCORD_CHANNEL_ID = ""
    /\ ONLY_ONLINE \in BOOLEAN
    /\ ONLY_GAMES \in OnlyGamesChoices
    /\ shutdown = FALSE
    /\ pc = "decide"
    /\ state \in {EmptyDict} \cup Snapshots
    /\ statusFile = FileMissing
    /\ curr \in Snapshots
    /\ notify = FALSE
    /\ reason = ""
    /\ resp = 0
    /\ exc = "none"
    /\ startupPosts = 1
    /\ posted = ""
    /\ lastPollState = -1
    /\ suppressed = FALSE
    /\ tickState = state
    /\ tickFile = statusFile
    /\ POLL_ENV = PyNone
    /\ POLL_SECONDS = PollSeconds(POLL_ENV)
    /\ sleepFor = 0
    /\ sendCalls = 0
    /\ run = Off

NextDecide == Decide

SpecDecide == InitDecide /\ [][NextDecide]_vars

---------------------------------------------------------------------------
(* Claims *)

TickPcs == {"fetch", "decide", "send", "persist", "sleep"}

\* the decision of the running tick has been taken
Decided == pc \in {"send", "persist", "sleep"} /\ curr # NoCurr

\* section 3 of the spec: in_game => game is a non-empty string
WellFormed(c) == c.in_game => (c.game # PyNone /\ c.game # "")

PrevState(prev) == IF prev = EmptyDict THEN 0 ELSE prev.personastate
PrevInGame(prev) == IF prev = EmptyDict THEN FALSE ELSE prev.in_game

\* the reference table of the decision, as the spec words it
CameOnline(prev, c) == PrevState(prev) = 0 /\ c.personastate > 0

ReferenceTable(prev, c) ==
    IF CameOnline(prev, c) /\ ~(ONLY_ONLINE /\ ONLY_GAMES # {})
    THEN <<TRUE, "came online">>
    ELSE IF /\ ~CameOnline(prev, c)
            /\ ~PrevInGame(prev) /\ c.in_game
            /\ ~ONLY_ONLINE
            /\ (ONLY_GAMES = {} \/ Lower(c.game) \in ONLY_GAMES)
    THEN <<TRUE, "started playing">>
    ELSE <<FALSE, "">>

\* C1: for every prev, every curr with in_game => game non-empty and every
\* filter setting, should_notify returns what the reference table gives: "came
\* online" iff prev is offline (or absent) and curr is online and the two filters
\* are not both set; else "started playing" iff prev is not in a game, curr is,
\* only_online is off and the title passes only_games; else (false, "").  A tick
\* that comes online and starts a game says only "came online", and a prev that
\* is in a game never gives "started playing".
C1_DecisionTable ==
    (pc \in {"send", "sleep"} /\ WellFormed(curr)) =>
        /\ <<notify, reason>> = ReferenceTable(state, curr)
        /\ (CameOnline(state, curr) => reason # "started playing")
        /\ (PrevInGame(state) => reason # "started playing")

\* a tick that both comes online and starts a game, decided as "came online"
C1_Witness ==
    /\ pc = "send"
    /\ state # EmptyDict /\ state.personastate = 0 /\ ~state.in_game
    /\ curr.personastate > 0 /\ curr.in_game /\ curr.game = "Dota 2"
    /\ notify /\ reason = "came online"

\* C2: whenever the fetched snapshot has persona_state = 0 (an in-game snapshot
\* with a title included), the tick's decision is notify = false, whatever prev
\* and the filters are: being observed offline is never a notification.
C2_OfflineNeverNotifies ==
    (Decided /\ curr.personastate = 0) => ~notify

\* C3: when the tick's POST was answered with a status >= 300, the tick ends
\* with the in-memory prev and the status file as they were when it began.
C3_FailedSendKeepsPrev ==
    (pc = "sleep" /\ resp >= 300) => (state = tickState /\ statusFile = tickFile)

\* the configured back-end has what it needs to POST
SendConfigured ==
    IF BOT_MODE THEN DISCORD_BOT_TOKEN # "" /\ DISCORD_CHANNEL_ID # ""
    ELSE DISCORD_WEBHOOK_URL # ""

\* C4: with no filters and a working back-end, a tick whose fetch sees
\* persona_state > 0 right after a tick whose fetch saw persona_state = 0 has
\* POSTed "came online" by its end, for every such pair of ticks in the run.
C4_EveryComeOnlineNotifies ==
    ( /\ pc = "sleep" /\ exc = "none" /\ curr # NoCurr
      /\ lastPollState = 0 /\ curr.personastate > 0
      /\ ~ONLY_ONLINE /\ ONLY_GAMES = {}
      /\ SendConfigured /\ resp < 300 )
    => posted = "came online"

\* C5: inside the loop the in-memory prev and the status file differ from what
\* they were when the tick began only if should_notify returned notify = true
\* for the tick's snapshot: a failed fetch, a negative decision or a transition
\* the filters suppress leave both as they were.
C5_PrevChangesOnlyOnNotify ==
    (pc \in TickPcs /\ (state # tickState \/ statusFile # tickFile)) =>
        /\ curr # NoCurr
        /\ should_notify(tickState, curr)[1]
        /\ notify
        /\ pc = "sleep"

\* a tick that came online under only_online + only_games ended: the
\* transition was suppressed and prev is still absent
C5_Witness ==
    /\ pc = "sleep" /\ exc = "none" /\ curr # NoCurr
    /\ ONLY_ONLINE /\ ONLY_GAMES # {}
    /\ tickState = EmptyDict /\ curr.personastate > 0
    /\ ~notify
    /\ state = EmptyDict /\ statusFile = tickFile

\* C6: once a started-playing transition has been dropped because the title is
\* not in only_games (only_online off, prev online and not in a game), the
\* first later tick that fetches a title in only_games decides notify = true
\* with reason "started playing".
C6_AdmittedGameFiresLater ==
    [][ (pc = "decide" /\ pc' # "decide" /\ suppressed /\ Admitted(curr))
        => (notify' /\ reason' = "started playing") ]_vars

\* C7: an exception raised by the fetch or by the send of a tick is caught: the
\* tick ends in the sleep with prev and the status file as they were when it
\* began, the sleep leads back to the loop test, the loop test starts a further
\* tick unless the shutdown flag is set, and no step of the loop ends the
\* process other than the loop test with the flag set.
C7_ErrorsAreCaught ==
    [][ /\ (pc \in TickPcs /\ exc = "none" /\ exc' # "none")
            => (pc' = "sleep" /\ state' = tickState /\ statusFile' = tickFile)
        /\ (pc = "sleep" /\ pc' # pc) => pc' = "loop"
        /\ (pc = "loop" /\ pc' # pc) => pc' = (IF shutdown THEN "done" ELSE "fetch")
        /\ (pc \in TickPcs) => pc' \notin {"done", "crashed", "failed"}
      ]_vars

\* a required setting is empty
RequiredMissing ==
    \/ STEAM_API_KEY = ""
    \/ STEAM_FRIEND_ID64 = ""
    \/ (BOT_MODE /\ (DISCORD_BOT_TOKEN = "" \/ DISCORD_CHANNEL_ID = ""))
    \/ (~BOT_MODE /\ DISCORD_WEBHOOK_URL = "")

\* C8: with a required setting empty (the API key, the friend id, the bot
\* token or channel id in bot mode, the webhook URL otherwise) main never gets
\* past validation: it is validating or has exited with SystemExit.
C8_MissingFieldFailsFast ==
    RequiredMissing => pc \in {"validate", "failed"}

\* C9: once main is past the startup notification (validation passed, status
\* about to be loaded or already loaded), exactly one POST of the startup
\* message has been issued, and never more than one.
C9_StartupPostedOnce ==
    /\ startupPosts <= 1
    /\ (pc \in {"load", "loop"} \cup TickPcs \cup {"done"}) => startupPosts = 1

\* C10: when the shutdown flag is set while a tick is in progress, the tick
\* does not go on into the inter-tick sleep.
C10_NoSleepAfterSignal ==
    [][ (shutdown /\ pc \in {"fetch", "decide", "send", "persist"})
        => pc' # "sleep" ]_vars

\* C13: when prev and curr are equal on all fields, should_notify returns
\* notify = false, whatever the filters are.
C13_EqualSnapshotsNeverNotify ==
    (pc \in {"send", "sleep"} /\ state = curr) => ~notify

\* the decision was taken on an online, in-game prev equal to curr
C13_Witness ==
    /\ pc = "sleep" /\ state = curr
    /\ curr.personastate > 0 /\ curr.in_game /\ curr.game = "Dota 2"
    /\ ~notify

\* C16: every snapshot fetch_steam_status returns satisfies in_game => game is
\* a non-empty string.
C16_InGameHasTitle ==
    (curr # NoCurr) => WellFormed(curr)

\* C20: with a configuration that passes validation, the process is never
\* ended by the startup notification: it does not die before the poll loop.
C20_StartupSendNeverFatal ==
    [][ (pc = "startup" /\ ~ConfigRejected) => pc' \in {"startup", "load"} ]_vars

InLoop == pc \in {"loop"} \cup TickPcs

\* C11: once the shutdown flag is set it is never reset; the loop test that
\* follows starts no new tick (no fetch) but leaves the loop; and, main's steps
\* all terminating, a process in the loop with the flag set eventually reaches
\* the clean exit.
C11_ShutdownDrains ==
    /\ [][ /\ shutdown => shutdown'
           /\ (shutdown /\ pc = "loop") => pc' \in {"loop", "done"}
           /\ (shutdown /\ pc # "fetch") => pc' # "fetch" ]_vars
    /\ ((shutdown /\ InLoop) ~> (pc = "done"))

\* the interval the spec states for the environment's value
ExpectedInterval ==
    IF POLL_ENV = PyNone THEN 60
    ELSE IF PyInt(POLL_ENV) < 15 THEN 15 ELSE PyInt(POLL_ENV)

\* C17: POLL_SECONDS is max(15, v) for the integer v of the environment and 60
\* when the variable is unset, at every moment of the run, and every
\* inter-tick sleep lasts exactly that long.
C17_PollFloor ==
    /\ POLL_SECONDS = ExpectedInterval
    /\ sleepFor \in {0, ExpectedInterval}

\* POLL_SECONDS=5: a sleep of 15 s has returned and a further tick runs
C17_Witness ==
    /\ POLL_ENV = "5" /\ sleepFor = 15 /\ pc = "fetch"

\* C18: a tick runs fetch, decide, send, persist in this order: the decision
\* is taken on a fetched snapshot before any send, the send follows a positive
\* decision, at most one send is made per tick, and prev and the status file
\* are written only after the tick's one send has returned, with the snapshot
\* that was sent.
C18_TickOrder ==
    /\ sendCalls <= 1
    /\ (pc = "fetch") => (curr = NoCurr /\ sendCalls = 0)
    /\ (pc = "decide") => (curr # NoCurr /\ sendCalls = 0)
    /\ (pc = "send") => (curr # NoCurr /\ notify /\ sendCalls = 0)
    /\ (pc = "persist") =>
          (sendCalls = 1 /\ exc = "none" /\ state = tickState /\ statusFile = tickFile)
    /\ (pc \in TickPcs /\ (statusFile # tickFile \/ state # tickState)) =>
          /\ pc = "sleep" /\ sendCalls = 1 /\ exc = "none"
          /\ state = curr
          /\ statusFile \in {FileJson(curr), FileCorrupt, tickFile}

\* a tick has sent and then written the snapshot it sent
C18_Witness ==
    /\ pc = "sleep" /\ sendCalls = 1 /\ posted = "came online"
    /\ statusFile = FileJson(curr) /\ statusFile # tickFile

\* the remembered prev is no snapshot: nothing was loaded, or what was loaded
\* is no snapshot object
NoPriorSnapshot(prev) == prev \in {EmptyDict, PyList} \/ should_notify_raises(prev) # "none"

\* C15: when the status file gave no snapshot (missing, unparseable, a JSON
\* document that is no snapshot object, an object whose personastate is no
\* integer), the loop is not left because of it and a tick that fetches an
\* online user, the filters not both set, decides "came online" as with no
\* prior state.
C15_BadFileIsNoPriorState ==
    ( /\ pc \in {"send", "sleep"} /\ curr # NoCurr
      /\ NoPriorSnapshot(tickState)
      /\ curr.personastate > 0
      /\ ~(ONLY_ONLINE /\ ONLY_GAMES # {}) )
    => (notify /\ reason = "came online")

\* a step of main that decides (should_notify returned)
DecideStep == pc = "decide" /\ pc' \in {"send", "sleep"} /\ exc' = "none"

\* C14: the status file round-trips across restarts: a process started again
\* loads as prev the snapshot the file was last written from, and when its
\* tick fetches that same snapshot the decision is no notification.
C14_StatusRoundTrips ==
    [][ /\ (pc = "load" /\ pc' = "loop" /\ run.written # NoCurr)
            => state' = run.written
        /\ (DecideStep /\ run.restarted /\ run.written # NoCurr
              /\ state = run.written /\ curr = run.written)
            => ~notify' ]_vars

\* a restarted process loaded the written snapshot, fetched it again and
\* decided not to notify
C14_Witness ==
    /\ pc = "sleep" /\ run.restarted /\ run.written # NoCurr
    /\ state = run.written /\ curr = run.written /\ curr.in_game
    /\ exc = "none" /\ ~notify

NoFilters == ~ONLY_ONLINE /\ ONLY_GAMES = {}

\* C12 as stated: on a new installation without filters the first fetched
\* snapshot of a user who is online or in a game is notified, and every
\* further tick that fetches the identical snapshot notifies nothing.
C12_FirstObservationOnce ==
    [][ (DecideStep /\ NoFilters) =>
          /\ (run.firstSeen = NoCurr /\ OnlineOrPlaying(curr)) => notify'
          /\ (run.firstSeen = curr) => ~notify' ]_vars

\* C12 amended: the first fetched snapshot of a user who is online or in a
\* game is notified, and once a send for it has returned without raising
\* every further tick that fetches the identical snapshot notifies nothing.
C12_FirstObservationOnceDelivered ==
    [][ (DecideStep /\ NoFilters) =>
          /\ (run.firstSeen = NoCurr /\ OnlineOrPlaying(curr)) => notify'
          /\ (run.firstSeen = curr /\ run.delivered) => ~notify' ]_vars

\* a further tick fetched the first snapshot again, its send having returned,
\* and decided not to notify
C12_Witness ==
    /\ pc = "sleep" /\ NoFilters /\ exc = "none"
    /\ run.firstSeen = curr /\ run.delivered /\ curr.in_game
    /\ tickState = curr /\ state = curr /\ ~notify

\* C19 as stated: from no status file, the fetched snapshots all having
\* in_game imply personastate > 0, prev is advanced by a notification at most
\* twice however often the process restarts, and once it was advanced to an
\* in-game snapshot no tick decides to notify.
C19_AtMostTwoAdvances ==
    [][ /\ run.obsOk' => run.advances' <= 2
        /\ (DecideStep /\ run.obsOk /\ run.inGameNotified) => ~notify' ]_vars

\* C19 amended: from no status file, the fetched snapshots all having
\* in_game imply personastate > 0, prev is advanced by a notification at most
\* twice, and not at all after an advance to an in-game snapshot, over the
\* whole run as long as every restart finds in the status file the prev last
\* advanced to.  A save that left the file unwritten or truncated (the error is
\* swallowed) makes the file stale; a restart that finds it stale loads an
\* older prev or none, and from that restart on prev is advanced again, again
\* at most twice and not after an in-game advance, until the next such restart.
C19_AtMostTwoAdvancesPerLoss ==
    [][ /\ (run.obsOk' /\ ~run.lost') => run.advances' <= 2
        /\ (DecideStep /\ run.obsOk /\ ~run.lost /\ run.inGameNotified) => ~notify'
        /\ run.obsOk' => run.sinceLoss' <= 2
        /\ (DecideStep /\ run.obsOk /\ run.inGameSinceLoss) => ~notify' ]_vars

\* a save failed, the process was started again on the stale file and prev was
\* advanced twice more, to an in-game snapshot (three advances in the run); a
\* later tick on the in-game user decided no
C19_Witness ==
    /\ pc = "sleep" /\ run.obsOk /\ run.restarted /\ run.lost
    /\ run.advances = 3 /\ run.sinceLoss = 2 /\ run.inGameSinceLoss
    /\ curr # NoCurr /\ curr.in_game /\ tickState = curr
    /\ exc = "none" /\ ~notify

====
